---- MODULE Spec2Model ----
(***************************************************************************)
(* The Intcode virtual machine of 2019/intcode/intcode.go: the opcode      *)
(* table, the instruction decoder, the operand resolver, the Run loop and  *)
(* Copy.  Slices are buffers of a heap, so that two VMs sharing a buffer   *)
(* can be told from two VMs owning equal buffers.                          *)
(***************************************************************************)
EXTENDS Integers, Sequences, FiniteSets, TLC

VARIABLES heap, vms, calls

vars == <<heap, vms, calls>>

(* ------------------------------ bounds -------------------------------- *)

\* Number of stepInstruction calls the VMs may make, all together.
MaxSteps == 3
\* Cells of the caller's memory buffer beyond the program's length.
Scratch == 2
\* The operand of opcode 9 in the programs that address far memory.
FarBase == 2000

(* --------------------------- Go arithmetic ---------------------------- *)

\* Go's / and % truncate toward zero (b > 0 here).
GoDiv(a, b) == IF a >= 0 THEN a \div b ELSE -((-a) \div b)

FlooredMod(a, b) == a % b

\* The % of Go.
GoMod(a, b) == IF a >= 0 THEN a % b ELSE -((-a) % b)

(* ---------------------------- opcode table ---------------------------- *)

position == 1
immediate == 2
relative == 3

OpCodes == {1, 2, 3, 4, 5, 6, 7, 8, 9, 99}

opsHaltWithParam ==
    [c \in OpCodes |->
        [code |-> c,
         pc |-> CASE c \in {1, 2, 7, 8} -> 3
                  [] c \in {5, 6} -> 2
                  [] c \in {3, 4, 9} -> 1
                  [] OTHER -> 1]]

\* The table's code and pc (parameter count) per opcode; name is a label
\* and x is modelled by the effect actions below.
ops ==
    [c \in OpCodes |->
        [code |-> c,
         pc |-> CASE c \in {1, 2, 7, 8} -> 3
                  [] c \in {5, 6} -> 2
                  [] c \in {3, 4, 9} -> 1
                  [] OTHER -> 0]]

\* The zero value of instruction.
ZeroIns == [op |-> [code |-> 0, pc |-> 0], pmodes |-> <<>>]

(* ------------------------- instruction decoder ------------------------ *)

ModeOfLenient(d) == IF d = 0 THEN position ELSE IF d = 1 THEN immediate ELSE relative

\* The switch on in % 10: the pmode of a mode digit, 0 for the default case.
ModeOf(d) ==
    CASE d = 0 -> position
      [] d = 1 -> immediate
      [] d = 2 -> relative
      [] OTHER -> 0

\* The loop over the op.pc mode digits: in is the remaining quotient, k the
\* number of iterations left, acc the modes appended so far.
RECURSIVE ParseModes(_, _, _)
ParseModes(in, k, acc) ==
    IF k = 0 THEN [pmodes |-> acc, err |-> "nil"]
    ELSE LET m == ModeOf(GoMod(in, 10))
         IN IF m = 0 THEN [pmodes |-> acc, err |-> "unknown param mode"]
            ELSE ParseModes(GoDiv(in, 10), k - 1, Append(acc, m))

\* parseInstruction: the opcode is looked up in the table, then the modes
\* of its parameters are read; ins is the zero instruction on an unknown
\* opcode (the caller drops it on any error).
parseInstruction(in) ==
    LET opcode == GoMod(in, 100)
    IN IF opcode \notin DOMAIN ops
       THEN [ins |-> ZeroIns, err |-> "unknown opcode"]
       ELSE LET r == ParseModes(GoDiv(in, 100), ops[opcode].pc, <<>>)
            IN [ins |-> [op |-> ops[opcode], pmodes |-> r.pmodes], err |-> r.err]

(* --------------------------- operand resolver ------------------------- *)

\* Whether index a is inside slice m (otherwise indexing panics).
InRange(m, a) == a >= 0 /\ a < Len(m)

\* m[a] of the Go slice (0-based).
At(m, a) == m[a + 1]

\* The VM's memory slice.
Mem(v) == heap[vms[v].mem]

valOk(v, i) == InRange(Mem(v), vms[v].pos + i)

val(v, i) == At(Mem(v), vms[v].pos + i)

\* The address mval dereferences; immediate mode dereferences nothing.
mvalOk(v, i) ==
    /\ valOk(v, i)
    /\ CASE vms[v].ins.pmodes[i + 1] = position -> InRange(Mem(v), val(v, i))
         [] vms[v].ins.pmodes[i + 1] = immediate -> TRUE
         [] OTHER -> InRange(Mem(v), vms[v].relbase + val(v, i))

mval(v, i) ==
    CASE vms[v].ins.pmodes[i + 1] = position -> At(Mem(v), val(v, i))
      [] vms[v].ins.pmodes[i + 1] = immediate -> val(v, i)
      [] OTHER -> At(Mem(v), vms[v].relbase + val(v, i))

setAddrNoBase(v, i) == val(v, i)

setAddrImmediateSelf(v, i) ==
    IF vms[v].ins.pmodes[i + 1] = relative
    THEN val(v, i) + vms[v].relbase
    ELSE IF vms[v].ins.pmodes[i + 1] = immediate THEN vms[v].pos + i ELSE val(v, i)

\* The address set writes to.
setAddr(v, i) ==
    IF vms[v].ins.pmodes[i + 1] = relative
    THEN val(v, i) + vms[v].relbase
    ELSE val(v, i)

setOk(v, i) == valOk(v, i) /\ InRange(Mem(v), setAddr(v, i))

\* The heap after set(i, x).
set(v, i, x) ==
    [heap EXCEPT ![vms[v].mem] = [@ EXCEPT ![setAddr(v, i) + 1] = x]]

jumpNoFlag(r, p) == [r EXCEPT !.pos = p]

\* The VM record after jump(p).
jump(r, p) == [r EXCEPT !.pos = p, !.jumped = TRUE]

(* ------------------------------- state -------------------------------- *)

VMIds == {"src", "cpy"}

\* The slices a VM allocates or is given: its program and its memory.
BufIds == {"src.program", "src.mem", "cpy.program", "cpy.mem"}

NoRet == [val |-> 0, err |-> FALSE]

\* A VM that has not been made yet.
NoVM ==
    [live |-> FALSE, program |-> "cpy.program", mem |-> "cpy.mem", pos |-> 0,
     ins |-> ZeroIns, Input |-> FALSE, Output |-> FALSE, jumped |-> FALSE,
     relbase |-> 0, phase |-> "idle", result |-> "none", hookret |-> NoRet,
     n |-> 0, at |-> 0, decoded |-> FALSE]

(* ------------------------ programs and hooks -------------------------- *)

\* Instruction words with their parameters, one entry per shape of
\* instruction: arithmetic, I/O, jumps (taken, not taken, negative operand,
\* negative and out-of-range targets), comparisons, relative addressing,
\* unknown opcodes, malformed mode digits and halt.
Instrs ==
    { <<1, 0, 0, 0>>, <<2, 3, 0, 3>>, <<3, 0>>, <<4, 0>>,
      <<1105, 1, 6>>, <<1105, -1, 6>>, <<1105, 0, 6>>, <<1106, 0, 6>>,
      <<1106, 5, 6>>, <<5, 1, 2>>, <<1105, 1, -2>>, <<1106, 0, 50>>,
      <<1107, 5, 10, 0>>, <<1108, 5, 5, 1>>, <<109, 2>>, <<204, 1>>,
      <<203, 1>>, <<50>>, <<0>>, <<-1>>, <<1399>>, <<301>>, <<30001>>, <<99>> }

\* Programs that move the relative base by FarBase and then write through
\* it; their memory buffer is FarBase cells longer.
FarPrograms == { <<109, FarBase, 203, 5, 99>>, <<109, FarBase, 21101, 3, 5, 5, 99>> }

\* Further comparisons (greater, equal, different operands), and writes
\* whose parameter has the mode digit 1.
MorePrograms ==
    { <<1107, 10, 5, 0, 99>>, <<1107, 5, 5, 0, 99>>, <<1108, 5, 6, 1, 99>>,
      <<11101, 2, 3, 0, 99>>, <<11102, 2, 3, 0, 99>>, <<11107, 2, 3, 0, 99>>,
      <<11108, 2, 3, 0, 99>>, <<103, 0, 4, 0, 99>> }

\* Programs: one or two instructions followed by a halt, and the above.
Programs ==
    { a \o <<99>> : a \in Instrs } \cup
    { a \o b \o <<99>> : a \in Instrs, b \in Instrs } \cup
    FarPrograms \cup MorePrograms

\* The length of the memory buffer the caller supplies for a program.
MemLen(program) ==
    Len(program) + Scratch + (IF program \in FarPrograms THEN FarBase ELSE 0)

\* What the caller's memory buffer holds before NewVM: zeroes, or junk.
FillVals == {0, 7}

\* Values the input hook returns.
InVals == {42, -3}

\* What one call of the input hook returns: a value, or an error.
InRets == [val : InVals, err : {FALSE}] \cup {[val |-> 0, err |-> TRUE]}

(* ------------------------------- NewVM -------------------------------- *)

\* copy(dst, src) of Go: the first min(len(dst), len(src)) elements.
CopyInto(dst, srcs) ==
    [i \in 1..Len(dst) |-> IF i <= Len(srcs) THEN srcs[i] ELSE dst[i]]

\* NewVM: the memory buffer receives the program; the VM starts at zero.
NewVM(program, mem, input, output) ==
    [vm |-> [live |-> TRUE, program |-> "src.program", mem |-> "src.mem",
             pos |-> 0, ins |-> ZeroIns, Input |-> input, Output |-> output,
             jumped |-> FALSE, relbase |-> 0, phase |-> "idle",
             result |-> "none", hookret |-> NoRet, n |-> 0, at |-> 0,
             decoded |-> FALSE],
     program |-> program,
     mem |-> CopyInto(mem, program)]

\* Run(program, mem, input, output) up to NewVM, for a program of P.
InitFrom(P) ==
    \E program \in P, fill \in FillVals, input \in BOOLEAN, output \in BOOLEAN :
        LET buf == [i \in 1..MemLen(program) |-> fill]
            new == NewVM(program, buf, input, output)
        IN /\ heap = [b \in BufIds |->
                        CASE b = "src.program" -> new.program
                          [] b = "src.mem" -> new.mem
                          [] OTHER -> <<>>]
           /\ vms = [v \in VMIds |-> IF v = "src" THEN new.vm ELSE NoVM]
           /\ calls = <<>>

Init == InitFrom(Programs)

(* ------------------------------ Run loop ------------------------------ *)

\* The stepInstruction calls made so far, by all VMs.
Steps == vms["src"].n + vms["cpy"].n

stepInstructionNoAdvance(r, m) ==
    LET pos1 == r.pos
        r1 == [r EXCEPT !.pos = pos1, !.jumped = FALSE]
    IN IF ~InRange(m, pos1)
       THEN [vm |-> [r1 EXCEPT !.decoded = FALSE], err |-> "panic"]
       ELSE LET p == parseInstruction(At(m, pos1))
            IN IF p.err # "nil"
               THEN [vm |-> [r1 EXCEPT !.at = pos1, !.decoded = FALSE], err |-> p.err]
               ELSE [vm |-> [r1 EXCEPT !.ins = p.ins, !.pos = pos1 + 1,
                                       !.at = pos1, !.decoded = TRUE],
                     err |-> "nil"]

\* stepInstruction on VM record r with memory m: the advance for the
\* previous instruction, the decode of the word at the position, and the
\* step past it.  at and decoded record the address of the decode and
\* whether it gave r.ins.
stepInstruction(r, m) ==
    LET pos1 == IF r.ins.op.code > 0 /\ ~r.jumped THEN r.pos + r.ins.op.pc ELSE r.pos
        r1 == [r EXCEPT !.pos = pos1, !.jumped = FALSE]
    IN IF ~InRange(m, pos1)
       THEN [vm |-> [r1 EXCEPT !.decoded = FALSE], err |-> "panic"]
       ELSE LET p == parseInstruction(At(m, pos1))
            IN IF p.err # "nil"
               THEN [vm |-> [r1 EXCEPT !.at = pos1, !.decoded = FALSE], err |-> p.err]
               ELSE [vm |-> [r1 EXCEPT !.ins = p.ins, !.pos = pos1 + 1,
                                       !.at = pos1, !.decoded = TRUE],
                     err |-> "nil"]

RunErrRaw(err) == err

\* What Run returns for the error of an effect: halt becomes nil.
RunErr(err) == IF err = "halt" THEN "nil" ELSE err

\* Run goes on with the next iteration of its loop.
Continue(r) == [r EXCEPT !.phase = "step"]

\* Run returns err.
Return(r, err) == [r EXCEPT !.phase = "idle", !.result = RunErr(err)]

PanicSilent(r) == [r EXCEPT !.phase = "idle", !.result = "nil"]

\* Run is left by a panic.
Panic(r) == [r EXCEPT !.phase = "idle", !.result = "panic"]

RunCallReset(v) ==
    /\ vms[v].live /\ vms[v].phase = "idle"
    /\ vms[v].result # "panic"
    /\ Steps < MaxSteps
    /\ vms' = [vms EXCEPT ![v] = [@ EXCEPT !.phase = "step", !.result = "none",
                                           !.ins = ZeroIns, !.decoded = FALSE]]
    /\ UNCHANGED <<heap, calls>>

\* A call of Run on a VM that is not running.
RunCall(v) ==
    /\ vms[v].live /\ vms[v].phase = "idle"
    /\ vms[v].result # "panic"
    /\ Steps < MaxSteps
    /\ vms' = [vms EXCEPT ![v] = [@ EXCEPT !.phase = "step", !.result = "none"]]
    /\ UNCHANGED <<heap, calls>>

\* One test of the loop's guard, and stepInstruction, on VM record r of v.
RunLoopBody(v, r) ==
    /\ vms[v].live /\ vms[v].phase = "step"
    /\ IF r.pos > Len(Mem(v))
       THEN vms' = [vms EXCEPT ![v] = Panic(r)]
       ELSE LET s == stepInstruction(r, Mem(v))
            IN vms' = [vms EXCEPT ![v] =
                         CASE s.err = "nil" -> [s.vm EXCEPT !.phase = "exec"]
                           [] s.err = "panic" -> Panic(s.vm)
                           [] OTHER -> Return(s.vm, s.err)]
    /\ UNCHANGED <<heap, calls>>

\* One iteration of the loop, counted against MaxSteps.
RunLoop(v) ==
    /\ Steps < MaxSteps
    /\ RunLoopBody(v, [vms[v] EXCEPT !.n = @ + 1])

\* One iteration of the loop, not counted: the loop as it is, for the
\* programs whose state space is finite without a bound on the steps.
RunLoopUnbounded(v) == RunLoopBody(v, vms[v])

(* ------------------------------ effects ------------------------------- *)

\* Whether the effect of the decoded instruction with opcode c is to run.
AtEffect(v, c) ==
    vms[v].live /\ vms[v].phase = "exec" /\ vms[v].ins.op.code = c

AddAsSub(v) ==
    /\ AtEffect(v, 1)
    /\ IF mvalOk(v, 0) /\ mvalOk(v, 1) /\ setOk(v, 2)
       THEN /\ heap' = set(v, 2, mval(v, 0) - mval(v, 1))
            /\ vms' = [vms EXCEPT ![v] = Continue(@)]
       ELSE /\ heap' = heap
            /\ vms' = [vms EXCEPT ![v] = Panic(@)]
    /\ UNCHANGED calls

\* ops[1].x
Add(v) ==
    /\ AtEffect(v, 1)
    /\ IF mvalOk(v, 0) /\ mvalOk(v, 1) /\ setOk(v, 2)
       THEN /\ heap' = set(v, 2, mval(v, 0) + mval(v, 1))
            /\ vms' = [vms EXCEPT ![v] = Continue(@)]
       ELSE /\ heap' = heap
            /\ vms' = [vms EXCEPT ![v] = Panic(@)]
    /\ UNCHANGED calls

\* ops[2].x
Mult(v) ==
    /\ AtEffect(v, 2)
    /\ IF mvalOk(v, 0) /\ mvalOk(v, 1) /\ setOk(v, 2)
       THEN /\ heap' = set(v, 2, mval(v, 0) * mval(v, 1))
            /\ vms' = [vms EXCEPT ![v] = Continue(@)]
       ELSE /\ heap' = heap
            /\ vms' = [vms EXCEPT ![v] = Panic(@)]
    /\ UNCHANGED calls

InputDefaultOnNil(v) ==
    /\ AtEffect(v, 3)
    /\ \E ret \in IF vms[v].Input THEN InRets ELSE {NoRet} :
          /\ vms' = [vms EXCEPT ![v] = [@ EXCEPT !.phase = "inhook", !.hookret = ret]]
          /\ calls' = IF vms[v].Input
                      THEN Append(calls, [vm |-> v, kind |-> "in", val |-> ret.val, err |-> ret.err])
                      ELSE calls
    /\ UNCHANGED heap

\* ops[3].x up to the call of the input hook: the nil test, and the call,
\* which returns ret.
Input(v) ==
    /\ AtEffect(v, 3)
    /\ IF ~vms[v].Input
       THEN /\ vms' = [vms EXCEPT ![v] = Return(@, "no input func")]
            /\ calls' = calls
       ELSE \E ret \in InRets :
               /\ vms' = [vms EXCEPT ![v] = [@ EXCEPT !.phase = "inhook", !.hookret = ret]]
               /\ calls' = Append(calls, [vm |-> v, kind |-> "in", val |-> ret.val, err |-> ret.err])
    /\ UNCHANGED heap

InputReturnDefaultOnErr(v) ==
    /\ vms[v].live /\ vms[v].phase = "inhook"
    /\ IF setOk(v, 0)
       THEN /\ heap' = set(v, 0, vms[v].hookret.val)
            /\ vms' = [vms EXCEPT ![v] =
                         IF vms[v].hookret.err THEN Return(@, "hook error") ELSE Continue(@)]
       ELSE /\ heap' = heap
            /\ vms' = [vms EXCEPT ![v] = Panic(@)]
    /\ UNCHANGED calls

\* ops[3].x from the return of the input hook.
InputReturn(v) ==
    /\ vms[v].live /\ vms[v].phase = "inhook"
    /\ IF vms[v].hookret.err
       THEN /\ heap' = heap
            /\ vms' = [vms EXCEPT ![v] = Return(@, "hook error")]
       ELSE IF setOk(v, 0)
            THEN /\ heap' = set(v, 0, vms[v].hookret.val)
                 /\ vms' = [vms EXCEPT ![v] = Continue(@)]
            ELSE /\ heap' = heap
                 /\ vms' = [vms EXCEPT ![v] = Panic(@)]
    /\ UNCHANGED calls

OutputRaw(v) ==
    /\ AtEffect(v, 4)
    /\ IF ~vms[v].Output
       THEN /\ vms' = [vms EXCEPT ![v] = Return(@, "no output func")]
            /\ calls' = calls
       ELSE IF ~valOk(v, 0)
            THEN /\ vms' = [vms EXCEPT ![v] = Panic(@)]
                 /\ calls' = calls
            ELSE \E e \in BOOLEAN :
                    /\ vms' = [vms EXCEPT ![v] =
                                 [@ EXCEPT !.phase = "outhook",
                                           !.hookret = [val |-> val(v, 0), err |-> e]]]
                    /\ calls' = Append(calls, [vm |-> v, kind |-> "out", val |-> val(v, 0), err |-> e])
    /\ UNCHANGED heap

\* ops[4].x up to the call of the output hook: the nil test, the operand,
\* and the call, which returns an error or nil.
Output(v) ==
    /\ AtEffect(v, 4)
    /\ IF ~vms[v].Output
       THEN /\ vms' = [vms EXCEPT ![v] = Return(@, "no output func")]
            /\ calls' = calls
       ELSE IF ~mvalOk(v, 0)
            THEN /\ vms' = [vms EXCEPT ![v] = Panic(@)]
                 /\ calls' = calls
            ELSE \E e \in BOOLEAN :
                    /\ vms' = [vms EXCEPT ![v] =
                                 [@ EXCEPT !.phase = "outhook",
                                           !.hookret = [val |-> mval(v, 0), err |-> e]]]
                    /\ calls' = Append(calls, [vm |-> v, kind |-> "out", val |-> mval(v, 0), err |-> e])
    /\ UNCHANGED heap

\* ops[4].x from the return of the output hook.
OutputReturn(v) ==
    /\ vms[v].live /\ vms[v].phase = "outhook"
    /\ vms' = [vms EXCEPT ![v] =
                 IF vms[v].hookret.err THEN Return(@, "hook error") ELSE Continue(@)]
    /\ UNCHANGED <<heap, calls>>

\* The test of ops[5].x on its first operand.
JumpIfTrueTest(x) == x > 0

\* ops[5].x
JumpIfTrue(v) ==
    /\ AtEffect(v, 5)
    /\ vms' = [vms EXCEPT ![v] =
                 IF ~mvalOk(v, 0) THEN Panic(@)
                 ELSE IF JumpIfTrueTest(mval(v, 0))
                      THEN IF ~mvalOk(v, 1) THEN Panic(@)
                           ELSE Continue(jump(@, mval(v, 1)))
                      ELSE Continue(@)]
    /\ UNCHANGED <<heap, calls>>

\* ops[6].x
JumpIfFalse(v) ==
    /\ AtEffect(v, 6)
    /\ vms' = [vms EXCEPT ![v] =
                 IF ~mvalOk(v, 0) THEN Panic(@)
                 ELSE IF mval(v, 0) = 0
                      THEN IF ~mvalOk(v, 1) THEN Panic(@)
                           ELSE Continue(jump(@, mval(v, 1)))
                      ELSE Continue(@)]
    /\ UNCHANGED <<heap, calls>>

LessThanOrEqual(v) ==
    /\ AtEffect(v, 7)
    /\ IF mvalOk(v, 0) /\ mvalOk(v, 1) /\ setOk(v, 2)
       THEN /\ heap' = set(v, 2, IF mval(v, 0) <= mval(v, 1) THEN 1 ELSE 0)
            /\ vms' = [vms EXCEPT ![v] = Continue(@)]
       ELSE /\ heap' = heap
            /\ vms' = [vms EXCEPT ![v] = Panic(@)]
    /\ UNCHANGED calls

\* ops[7].x
LessThan(v) ==
    /\ AtEffect(v, 7)
    /\ IF mvalOk(v, 0) /\ mvalOk(v, 1) /\ setOk(v, 2)
       THEN /\ heap' = set(v, 2, IF mval(v, 0) < mval(v, 1) THEN 1 ELSE 0)
            /\ vms' = [vms EXCEPT ![v] = Continue(@)]
       ELSE /\ heap' = heap
            /\ vms' = [vms EXCEPT ![v] = Panic(@)]
    /\ UNCHANGED calls

\* ops[8].x
Equals(v) ==
    /\ AtEffect(v, 8)
    /\ IF mvalOk(v, 0) /\ mvalOk(v, 1) /\ setOk(v, 2)
       THEN /\ heap' = set(v, 2, IF mval(v, 0) = mval(v, 1) THEN 1 ELSE 0)
            /\ vms' = [vms EXCEPT ![v] = Continue(@)]
       ELSE /\ heap' = heap
            /\ vms' = [vms EXCEPT ![v] = Panic(@)]
    /\ UNCHANGED calls

\* ops[9].x
AdjustRelativeBase(v) ==
    /\ AtEffect(v, 9)
    /\ vms' = [vms EXCEPT ![v] =
                 IF ~mvalOk(v, 0) THEN Panic(@)
                 ELSE Continue([@ EXCEPT !.relbase = @ + mval(v, 0)])]
    /\ UNCHANGED <<heap, calls>>

\* ops[99].x
Halt(v) ==
    /\ AtEffect(v, 99)
    /\ vms' = [vms EXCEPT ![v] = Return(@, "halt")]
    /\ UNCHANGED <<heap, calls>>

(* -------------------------------- Copy -------------------------------- *)

\* The buffers Copy makes for the new VM d.
ProgramBuf(d) == IF d = "src" THEN "src.program" ELSE "cpy.program"

MemBuf(d) == IF d = "src" THEN "src.mem" ELSE "cpy.mem"

CopyShared(s, d) ==
    /\ vms[s].live /\ ~vms[d].live
    /\ vms[s].phase \in {"idle", "inhook", "outhook"}
    /\ vms[s].result # "panic"
    /\ vms' = [vms EXCEPT ![d] =
                 [vms[s] EXCEPT !.phase = "idle", !.result = "none", !.hookret = NoRet,
                                !.n = 0]]
    /\ heap' = heap
    /\ UNCHANGED calls

CopyNoRelbase(s, d) ==
    /\ vms[s].live /\ ~vms[d].live
    /\ vms[s].phase \in {"idle", "inhook", "outhook"}
    /\ vms[s].result # "panic"
    /\ vms' = [vms EXCEPT ![d] =
                 [vms[s] EXCEPT !.program = ProgramBuf(d), !.mem = MemBuf(d),
                                !.phase = "idle", !.result = "none",
                                !.hookret = NoRet, !.n = 0, !.relbase = 0]]
    /\ heap' = [heap EXCEPT
                  ![ProgramBuf(d)] = heap[vms[s].program],
                  ![MemBuf(d)] = heap[vms[s].mem]]
    /\ UNCHANGED calls

\* Copy of VM s, giving VM d.  The caller holds s between two calls of Run
\* or inside a hook that Run is calling; a panic of Run ends the program,
\* so that nothing is called after it.  The new VM is not running.
Copy(s, d) ==
    /\ vms[s].live /\ ~vms[d].live
    /\ vms[s].phase \in {"idle", "inhook", "outhook"}
    /\ vms[s].result # "panic"
    /\ vms' = [vms EXCEPT ![d] =
                 [vms[s] EXCEPT !.program = ProgramBuf(d), !.mem = MemBuf(d),
                                !.phase = "idle", !.result = "none",
                                !.hookret = NoRet, !.n = 0]]
    /\ heap' = [heap EXCEPT
                  ![ProgramBuf(d)] =
                      CopyInto([i \in 1..Len(heap[vms[s].program]) |-> 0], heap[vms[s].program]),
                  ![MemBuf(d)] =
                      CopyInto([i \in 1..Len(heap[vms[s].mem]) |-> 0], heap[vms[s].mem])]
    /\ UNCHANGED calls

(* --------------------------- specification ---------------------------- *)

Next ==
    \/ \E v \in VMIds : RunCall(v)
    \/ \E v \in VMIds : RunLoop(v)
    \/ \E v \in VMIds : Add(v)
    \/ \E v \in VMIds : Mult(v)
    \/ \E v \in VMIds : Input(v)
    \/ \E v \in VMIds : InputReturn(v)
    \/ \E v \in VMIds : Output(v)
    \/ \E v \in VMIds : OutputReturn(v)
    \/ \E v \in VMIds : JumpIfTrue(v)
    \/ \E v \in VMIds : JumpIfFalse(v)
    \/ \E v \in VMIds : LessThan(v)
    \/ \E v \in VMIds : Equals(v)
    \/ \E v \in VMIds : AdjustRelativeBase(v)
    \/ \E v \in VMIds : Halt(v)
    \/ Copy("src", "cpy")

Spec == Init /\ [][Next]_vars

(* ------------------- specification without a step bound --------------- *)

\* Programs whose runs visit finitely many states: the examples of the
\* opcodes, and jumps that form a cycle or leave memory.
LivePrograms ==
    { <<1105, 1, 0, 99>>, <<1105, 1, -2, 99>>, <<1106, 0, 4, 50, 99>>,
      <<3, 0, 99>>, <<4, 0, 99>>, <<1, 0, 0, 0, 99>>, <<2, 3, 0, 3, 99>>,
      <<1107, 5, 10, 0, 99>>, <<1108, 5, 5, 1, 99>>, <<109, 2, 99>> }

InitLive == InitFrom(LivePrograms)

\* A step of the Run that VM v is executing: the loop, an effect, or the
\* return of a hook.
RunStep(v) ==
    \/ RunLoopUnbounded(v)
    \/ Add(v) \/ Mult(v)
    \/ Input(v) \/ InputReturn(v)
    \/ Output(v) \/ OutputReturn(v)
    \/ JumpIfTrue(v) \/ JumpIfFalse(v)
    \/ LessThan(v) \/ Equals(v)
    \/ AdjustRelativeBase(v)
    \/ Halt(v)

NextLive ==
    \/ \E v \in VMIds : RunCall(v)
    \/ \E v \in VMIds : RunStep(v)
    \/ Copy("src", "cpy")

\* Run is sequential code and a hook runs to completion: a Run that can
\* take a step takes it.  Calls of Run and of Copy are the caller's choice.
SpecLive ==
    InitLive /\ [][NextLive]_vars /\ \A v \in VMIds : WF_vars(RunStep(v))

(* ------------------------------ properties ---------------------------- *)

\* VM v takes a step: every action of a VM changes its record, and no
\* action changes the record of another VM that exists.
Acts(v) == vms[v].live /\ vms'[v] # vms[v]

\* VM v runs stepInstruction and the decode of a word takes place.
Decodes(v) ==
    /\ Acts(v) /\ vms[v].phase = "step"
    /\ vms'[v].result # "panic"

\* The word the decode of this step is given.
Word(v) == At(Mem(v), vms'[v].at)

\* The calls of the hooks made on behalf of VM v.
CallsOf(v) == SelectSeq(calls, LAMBDA c : c.vm = v)

\* C1: a taken jump sets the position to the second operand and marks the
\* jump: opcode 5 with any nonzero first operand, negative ones included,
\* or opcode 6 with a zero first operand.
C1_TakenJump ==
    [][\A v \in VMIds :
          ( /\ Acts(v)
            /\ \/ AtEffect(v, 5) /\ mvalOk(v, 0) /\ mval(v, 0) # 0
               \/ AtEffect(v, 6) /\ mvalOk(v, 0) /\ mval(v, 0) = 0
            /\ mvalOk(v, 1) )
          => /\ vms'[v].pos = mval(v, 1)
             /\ vms'[v].jumped
             /\ vms'[v].phase = "step"]_vars

\* C2: the step that executes opcode 99 makes Run return nil and changes
\* no memory cell, so memory is what the last effect before it left.
C2_HaltIsSuccess ==
    [][\A v \in VMIds :
          (Acts(v) /\ AtEffect(v, 99))
          => /\ vms'[v].result = "nil"
             /\ vms'[v].phase = "idle"
             /\ heap' = heap]_vars

C2_Witness ==
    \E v \in VMIds :
        /\ vms[v].live /\ vms[v].result = "nil" /\ vms[v].ins.op.code = 99
        /\ heap[vms[v].program] = <<1, 0, 0, 0, 99>>
        /\ At(Mem(v), 0) = 2

\* C3: after an instruction decoded at p with n parameters that did not
\* jump, the next decode is at p + 1 + n; the advance is made by the next
\* stepInstruction, and the jump flag is false once stepInstruction has
\* made its advance.
C3_AdvanceByParamCount ==
    [][\A v \in VMIds :
          /\ (Decodes(v) /\ vms[v].decoded /\ ~vms[v].jumped)
             => vms'[v].at = vms[v].at + 1 + vms[v].ins.op.pc
          /\ (Acts(v) /\ vms[v].phase = "step" /\ vms[v].pos <= Len(Mem(v)))
             => ~vms'[v].jumped]_vars

C3_Witness ==
    \E v \in VMIds :
        /\ vms[v].live /\ vms[v].phase = "exec" /\ vms[v].n >= 3
        /\ heap[vms[v].program][1] = 1106 /\ heap[vms[v].program][2] = 5
        /\ vms[v].at = 7

\* A word whose low two digits match no entry of the opcode table.
UnknownWord(w) == w < 0 \/ (w % 100) \notin OpCodes

\* C4: the decode of a word whose low two digits match no opcode makes Run
\* return the unknown-opcode error; no effect runs, and memory, relative
\* base and the decoded instruction stay as the previous step left them.
C4_UnknownOpcode ==
    [][\A v \in VMIds :
          (Decodes(v) /\ UnknownWord(Word(v)))
          => /\ vms'[v].result = "unknown opcode"
             /\ vms'[v].phase = "idle"
             /\ heap' = heap /\ calls' = calls
             /\ vms'[v].relbase = vms[v].relbase
             /\ vms'[v].ins = vms[v].ins]_vars

C4_Witness ==
    \E v \in VMIds :
        /\ vms[v].live /\ vms[v].result = "unknown opcode" /\ vms[v].n >= 2
        /\ At(Mem(v), vms[v].at) < 0

\* C5 as stated: the decode of the word 1399 makes Run fail with the
\* unknown-opcode error and changes no memory.
C5_Original ==
    [][\A v \in VMIds :
          (Decodes(v) /\ Word(v) = 1399)
          => /\ vms'[v].result = "unknown opcode"
             /\ heap' = heap]_vars

\* C5 amended: the word 1399 decodes as opcode 99 with no parameters (no
\* mode digit is examined, halt having none), and Run terminates as a
\* clean halt, returning nil, without changing memory.
C5_Word1399Halts ==
    [][\A v \in VMIds :
          /\ (Decodes(v) /\ Word(v) = 1399)
             => /\ vms'[v].phase = "exec"
                /\ vms'[v].ins = [op |-> [code |-> 99, pc |-> 0], pmodes |-> <<>>]
                /\ heap' = heap
          /\ (Acts(v) /\ vms[v].phase = "exec" /\ vms[v].decoded
                /\ At(Mem(v), vms[v].at) = 1399)
             => /\ vms'[v].result = "nil" /\ vms'[v].phase = "idle"
                /\ heap' = heap]_vars

C5_Witness ==
    \E v \in VMIds :
        /\ vms[v].live /\ vms[v].result = "nil" /\ vms[v].decoded
        /\ InRange(Mem(v), vms[v].at) /\ At(Mem(v), vms[v].at) = 1399

\* A word with a known opcode, one of whose parameters has a mode digit
\* that is not 0, 1 or 2.
BadModeWord(w) ==
    /\ w >= 0 /\ (w % 100) \in OpCodes
    /\ \E i \in 0..(ops[w % 100].pc - 1) :
          ((w \div 100) \div (10 ^ i)) % 10 \notin {0, 1, 2}

\* C6: the decode of a word with a known opcode and a mode digit outside
\* {0,1,2} makes Run return the parameter-mode error; the effect does not
\* run and memory is unchanged.
C6_InvalidParameterMode ==
    [][\A v \in VMIds :
          (Decodes(v) /\ BadModeWord(Word(v)))
          => /\ vms'[v].result = "unknown param mode"
             /\ vms'[v].phase = "idle"
             /\ heap' = heap /\ calls' = calls
             /\ vms'[v].relbase = vms[v].relbase
             /\ vms'[v].ins = vms[v].ins]_vars

C6_Witness ==
    \E v \in VMIds :
        /\ vms[v].live /\ vms[v].result = "unknown param mode"
        /\ At(Mem(v), vms[v].at) = 30001

\* C7: opcode 3 without an input hook, or opcode 4 without an output hook,
\* makes Run return the missing-hook error, and changes no memory cell.
C7_MissingHook ==
    [][\A v \in VMIds :
          /\ (Acts(v) /\ AtEffect(v, 3) /\ ~vms[v].Input)
             => /\ vms'[v].result = "no input func" /\ vms'[v].phase = "idle"
                /\ heap' = heap /\ calls' = calls
          /\ (Acts(v) /\ AtEffect(v, 4) /\ ~vms[v].Output)
             => /\ vms'[v].result = "no output func" /\ vms'[v].phase = "idle"
                /\ heap' = heap /\ calls' = calls]_vars

C7_Witness ==
    \E v \in VMIds :
        /\ vms[v].live /\ vms[v].result = "no input func"
        /\ vms[v].ins.op.code = 3 /\ vms[v].n >= 2
        /\ Mem(v) = heap[vms[v].program] \o <<7, 7>>

\* C8: when a hook returns an error, Run returns it at that step; the hook
\* is not called again, nothing is written, and the calls made before stay
\* made.
C8_HookFailure ==
    [][/\ \A v \in VMIds :
             (Acts(v) /\ vms[v].phase \in {"inhook", "outhook"} /\ vms[v].hookret.err)
             => /\ vms'[v].result = "hook error" /\ vms'[v].phase = "idle"
                /\ heap' = heap /\ calls' = calls
       /\ Len(calls') \in {Len(calls), Len(calls) + 1}
       /\ SubSeq(calls', 1, Len(calls)) = calls]_vars

C8_Witness ==
    \E v \in VMIds :
        /\ vms[v].live /\ vms[v].result = "hook error" /\ vms[v].ins.op.code = 3
        /\ Len(CallsOf(v)) = 2
        /\ CallsOf(v)[1].kind = "out" /\ ~CallsOf(v)[1].err
        /\ CallsOf(v)[2].kind = "in" /\ CallsOf(v)[2].err

\* C9: the program 3,0,4,0,99, run from NewVM with hooks that do not fail,
\* calls the input hook once, then the output hook once with the value the
\* input hook gave, and halts with nil.  In general opcode 3 stores the
\* hook's value at its target and changes no other cell, and opcode 4 makes
\* one call of the output hook with its resolved operand.
C9_IORoundTrip ==
    /\ []( ( /\ heap["src.program"] = <<3, 0, 4, 0, 99>>
             /\ vms["src"].Input /\ vms["src"].Output
             /\ \A k \in 1..Len(CallsOf("src")) : ~CallsOf("src")[k].err
             /\ vms["src"].n = 3 /\ vms["src"].phase = "idle" )
           => /\ vms["src"].result = "nil"
              /\ \E x \in InVals :
                    CallsOf("src") = << [vm |-> "src", kind |-> "in", val |-> x, err |-> FALSE],
                                        [vm |-> "src", kind |-> "out", val |-> x, err |-> FALSE] >> )
    /\ [][\A v \in VMIds :
             /\ (Acts(v) /\ vms[v].phase = "inhook" /\ ~vms[v].hookret.err /\ setOk(v, 0))
                => /\ Mem(v)' = [Mem(v) EXCEPT ![setAddr(v, 0) + 1] = vms[v].hookret.val]
                   /\ calls' = calls
             /\ (Acts(v) /\ AtEffect(v, 4) /\ vms[v].Output /\ mvalOk(v, 0))
                => /\ Len(calls') = Len(calls) + 1
                   /\ calls'[Len(calls')].vm = v
                   /\ calls'[Len(calls')].kind = "out"
                   /\ calls'[Len(calls')].val = mval(v, 0)
             /\ (Acts(v) /\ vms[v].phase = "outhook") => calls' = calls]_vars

C9_Witness ==
    /\ heap["src.program"] = <<3, 0, 4, 0, 99>>
    /\ vms["src"].result = "nil"
    /\ calls = << [vm |-> "src", kind |-> "in", val |-> 42, err |-> FALSE],
                  [vm |-> "src", kind |-> "out", val |-> 42, err |-> FALSE] >>

\* What a VM is: its memory and program, cell by cell, and its scalars.
View(v) ==
    [mem |-> heap[vms[v].mem], program |-> heap[vms[v].program],
     pos |-> vms[v].pos, ins |-> vms[v].ins, jumped |-> vms[v].jumped,
     relbase |-> vms[v].relbase]

\* C10: after Copy, a step of the copy leaves every memory cell and scalar
\* of the source unchanged, and a step of the source leaves the copy
\* unchanged.
C10_CopyIndependence ==
    [][\A a \in VMIds : \A b \in VMIds \ {a} :
          (Acts(a) /\ vms[b].live) => View(b)' = View(b)]_vars

C10_Witness ==
    /\ vms["src"].live /\ vms["cpy"].live
    /\ vms["src"].n >= 1 /\ vms["cpy"].n >= 1
    /\ At(Mem("src"), 0) # At(Mem("cpy"), 0)
    /\ vms["src"].relbase # vms["cpy"].relbase

\* C11: Copy returns a VM whose program, memory, position, instruction,
\* jump flag and relative base equal the source's and whose hooks are the
\* source's; the call changes nothing in the source.
C11_CopyEqualsSource ==
    [][(~vms["cpy"].live /\ vms'["cpy"].live)
       => /\ View("cpy")' = View("src")
          /\ vms'["cpy"].Input = vms["src"].Input
          /\ vms'["cpy"].Output = vms["src"].Output
          /\ vms'["src"] = vms["src"]
          /\ heap'[vms["src"].mem] = heap[vms["src"].mem]
          /\ heap'[vms["src"].program] = heap[vms["src"].program]
          /\ calls' = calls]_vars

C11_Witness ==
    /\ vms["cpy"].live /\ vms["cpy"].n = 0 /\ vms["cpy"].phase = "idle"
    /\ vms["src"].phase = "inhook"
    /\ vms["cpy"].relbase = 2 /\ vms["cpy"].pos = 3 /\ vms["cpy"].ins.op.code = 3
    /\ View("cpy") = View("src")

\* The address the write parameter i of the decoded instruction names: the
\* raw word, plus the relative base in relative mode only.
TargetAddr(v, i) ==
    LET raw == At(Mem(v), vms[v].pos + i)
    IN IF vms[v].ins.pmodes[i + 1] = relative THEN vms[v].relbase + raw ELSE raw

\* The heap with cell a of VM v's memory set to x, and nothing else changed.
HeapWith(v, a, x) ==
    [heap EXCEPT ![vms[v].mem] = [Mem(v) EXCEPT ![a + 1] = x]]

\* The effect of a three-parameter opcode runs and indexes memory in range.
Writes3(v, c) ==
    Acts(v) /\ AtEffect(v, c) /\ mvalOk(v, 0) /\ mvalOk(v, 1) /\ setOk(v, 2)

\* C12: opcode 1 writes operand0 + operand1 and opcode 2 writes operand0 *
\* operand1 to the address of the third parameter, and change no other
\* cell; 1,0,0,0,99 ends with memory[0] = 2 and 2,3,0,3,99 with memory
\* 2,3,0,6,99.
C12_Arithmetic ==
    /\ [][\A v \in VMIds :
             /\ Writes3(v, 1)
                => /\ heap' = HeapWith(v, TargetAddr(v, 2), mval(v, 0) + mval(v, 1))
                   /\ vms'[v].phase = "step"
             /\ Writes3(v, 2)
                => /\ heap' = HeapWith(v, TargetAddr(v, 2), mval(v, 0) * mval(v, 1))
                   /\ vms'[v].phase = "step"]_vars
    /\ []( ( /\ heap["src.program"] = <<1, 0, 0, 0, 99>>
             /\ vms["src"].n = 2 /\ vms["src"].phase = "idle" )
           => /\ vms["src"].result = "nil"
              /\ At(Mem("src"), 0) = 2
              /\ SubSeq(Mem("src"), 2, 5) = <<0, 0, 0, 99>> )
    /\ []( ( /\ heap["src.program"] = <<2, 3, 0, 3, 99>>
             /\ vms["src"].n = 2 /\ vms["src"].phase = "idle" )
           => /\ vms["src"].result = "nil"
              /\ SubSeq(Mem("src"), 1, 5) = <<2, 3, 0, 6, 99>> )

C12_Witness ==
    /\ heap["src.program"] = <<2, 3, 0, 3, 99>>
    /\ vms["src"].result = "nil" /\ vms["src"].n = 2
    /\ At(Mem("src"), 3) = 6

\* The source VM has run the one instruction of program p and its halt.
RanOnce(p) ==
    /\ heap["src.program"] = p
    /\ vms["src"].n = 2 /\ vms["src"].phase = "idle"

\* C13: opcode 7 writes 1 to its target when operand0 < operand1 and 0
\* otherwise, opcode 8 writes 1 when operand0 = operand1 and 0 otherwise;
\* the target is overwritten also when the result is 0 and it held a
\* nonzero value.
C13_Comparisons ==
    /\ [][\A v \in VMIds :
             /\ Writes3(v, 7)
                => /\ heap' = HeapWith(v, TargetAddr(v, 2),
                                       IF mval(v, 0) < mval(v, 1) THEN 1 ELSE 0)
                   /\ vms'[v].phase = "step"
             /\ Writes3(v, 8)
                => /\ heap' = HeapWith(v, TargetAddr(v, 2),
                                       IF mval(v, 0) = mval(v, 1) THEN 1 ELSE 0)
                   /\ vms'[v].phase = "step"]_vars
    /\ [](RanOnce(<<1107, 5, 10, 0, 99>>) => SubSeq(Mem("src"), 1, 5) = <<1, 5, 10, 0, 99>>)
    /\ [](RanOnce(<<1107, 10, 5, 0, 99>>) => SubSeq(Mem("src"), 1, 5) = <<0, 10, 5, 0, 99>>)
    /\ [](RanOnce(<<1107, 5, 5, 0, 99>>) => SubSeq(Mem("src"), 1, 5) = <<0, 5, 5, 0, 99>>)
    /\ [](RanOnce(<<1108, 5, 5, 1, 99>>) => SubSeq(Mem("src"), 1, 5) = <<1108, 1, 5, 1, 99>>)
    /\ [](RanOnce(<<1108, 5, 6, 1, 99>>) => SubSeq(Mem("src"), 1, 5) = <<1108, 0, 6, 1, 99>>)

C13_Witness ==
    /\ RanOnce(<<1107, 10, 5, 0, 99>>)
    /\ vms["src"].result = "nil"
    /\ At(Mem("src"), 0) = 0

\* C14: the relative base is 0 at first, opcode 9 adds its resolved operand
\* to it and no other step changes it; a relative-mode parameter with raw
\* word w reads or writes address relative base + w; after opcode 9 with
\* operand FarBase (2000), the relative-mode write at offset 5 goes to
\* address FarBase + 5 (2005).
C14_RelativeBase ==
    /\ [](vms["src"].n = 0 => vms["src"].relbase = 0)
    /\ [][\A v \in VMIds :
             /\ Acts(v)
                => vms'[v].relbase =
                      IF AtEffect(v, 9) /\ mvalOk(v, 0)
                      THEN vms[v].relbase + mval(v, 0)
                      ELSE vms[v].relbase
             /\ ( /\ Acts(v) /\ vms[v].phase = "inhook" /\ ~vms[v].hookret.err
                  /\ vms[v].ins.pmodes[1] = relative /\ setOk(v, 0) )
                => heap' = HeapWith(v, vms[v].relbase + At(Mem(v), vms[v].pos),
                                    vms[v].hookret.val)
             /\ ( /\ Acts(v) /\ AtEffect(v, 4) /\ vms[v].Output
                  /\ vms[v].ins.pmodes[1] = relative /\ mvalOk(v, 0) )
                => calls'[Len(calls')].val =
                      At(Mem(v), vms[v].relbase + At(Mem(v), vms[v].pos))]_vars
    /\ []( ( /\ heap["src.program"] = <<109, FarBase, 203, 5, 99>>
             /\ vms["src"].n = 3 /\ vms["src"].result = "nil"
             /\ vms["src"].Input
             /\ \A k \in 1..Len(CallsOf("src")) : ~CallsOf("src")[k].err )
           => /\ vms["src"].relbase = FarBase
              /\ \E x \in InVals :
                    Mem("src") = [heap["src.program"] \o
                                    [i \in 1..(Scratch + FarBase) |-> At(Mem("src"), 5)]
                                  EXCEPT ![FarBase + 5 + 1] = x] )

C14_Witness ==
    /\ heap["src.program"] = <<109, FarBase, 203, 5, 99>>
    /\ vms["src"].n = 3 /\ vms["src"].result = "nil"
    /\ At(Mem("src"), FarBase + 5) = 42 /\ At(Mem("src"), 5) = 7

\* The address the next stepInstruction decodes at.
DecodeAddr(v) ==
    IF vms[v].ins.op.code > 0 /\ ~vms[v].jumped
    THEN vms[v].pos + vms[v].ins.op.pc
    ELSE vms[v].pos

\* C15: Run returns nil only when the instruction it executed last is
\* opcode 99; a loop iteration that starts at or past the end of memory, or
\* whose decode address is at or past it, ends in a panic: Run returns
\* neither nil nor an error.
C15_NoSilentReturn ==
    /\ [](\A v \in VMIds :
             (vms[v].live /\ vms[v].result = "nil")
             => vms[v].decoded /\ vms[v].ins.op.code = 99 /\ vms[v].phase = "idle")
    /\ [][\A v \in VMIds :
             ( /\ Acts(v) /\ vms[v].phase = "step"
               /\ \/ vms[v].pos >= Len(Mem(v))
                  \/ DecodeAddr(v) >= Len(Mem(v)) )
             => /\ vms'[v].result = "panic"
                /\ heap' = heap /\ calls' = calls]_vars

C15_Witness ==
    \E v \in VMIds :
        /\ vms[v].live /\ vms[v].result = "panic"
        /\ vms[v].pos = Len(Mem(v)) + 1
        /\ vms[v].n >= 3

\* C16 as stated: every call of Run eventually ends (here also counting a
\* panic as an end).
C16_Original ==
    \A v \in VMIds : [](vms[v].phase # "idle" => <>(vms[v].phase = "idle"))

\* C16 amended: a Run that stops taking jumps eventually ends, with nil,
\* with the first error, or in a panic; a Run need not end when it keeps
\* taking jumps.
C16_EndsUnlessJumping ==
    \A v \in VMIds :
        [](vms[v].phase # "idle" => <>(vms[v].phase = "idle" \/ vms[v].jumped))

C16_Witness ==
    \E v \in VMIds :
        /\ vms[v].live /\ vms[v].phase = "idle" /\ vms[v].result = "nil"
        /\ heap[vms[v].program] = <<1106, 0, 4, 50, 99>>
        /\ vms[v].at = 4

\* C17: a VM built by NewVM starts with position 0, relative base 0 and
\* jump flag false, its memory begins with the program, and every address
\* beyond the program's length reads as zero, whatever the buffer the
\* caller supplied held.
C17_FreshVM ==
    (vms["src"].n = 0 /\ vms["src"].phase = "idle" /\ vms["src"].result = "none")
    => /\ vms["src"].pos = 0 /\ vms["src"].relbase = 0 /\ ~vms["src"].jumped
       /\ SubSeq(Mem("src"), 1, Len(heap["src.program"])) = heap["src.program"]
       /\ \A a \in Len(heap["src.program"])..(Len(Mem("src")) - 1) :
             At(Mem("src"), a) = 0

\* C18 as stated: in every reachable state the position is a non-negative
\* index into memory.
C18_Original ==
    \A v \in VMIds : vms[v].live => InRange(Mem(v), vms[v].pos)

\* C18 amended: in a run that has not panicked the position is between 0
\* and the length of memory, and one past the decoded word while an
\* instruction executes, except right after a taken jump: jump stores its
\* operand unchecked, the position may then be negative or beyond memory,
\* and the next loop iteration panics.
C18_PositionRange ==
    /\ [](\A v \in VMIds :
             /\ (vms[v].live /\ vms[v].result # "panic" /\ ~vms[v].jumped)
                => (vms[v].pos >= 0 /\ vms[v].pos <= Len(Mem(v)))
             /\ (vms[v].live /\ vms[v].phase \in {"exec", "inhook", "outhook"})
                => (InRange(Mem(v), vms[v].at) /\ vms[v].pos = vms[v].at + 1))
    /\ [][\A v \in VMIds :
             ( /\ Acts(v) /\ vms[v].phase = "step" /\ vms[v].jumped
               /\ ~InRange(Mem(v), vms[v].pos) )
             => vms'[v].result = "panic"]_vars

C18_Witness ==
    \E v \in VMIds :
        /\ vms[v].live /\ vms[v].jumped /\ vms[v].pos = -2
        /\ vms[v].phase = "step" /\ vms[v].result = "none"

\* The value opcode c (1, 2, 7 or 8) writes for the operands x and y.
Result3(c, x, y) ==
    CASE c = 1 -> x + y
      [] c = 2 -> x * y
      [] c = 7 -> (IF x < y THEN 1 ELSE 0)
      [] OTHER -> (IF x = y THEN 1 ELSE 0)

\* C19: a write parameter with the mode digit 1 is decoded without an
\* error, and the write goes to the address equal to the raw parameter
\* word, as in position mode.
C19_ImmediateWrite ==
    /\ [][\A v \in VMIds :
             /\ (Decodes(v) /\ Word(v) \in {11101, 11102, 11107, 11108, 103})
                => (vms'[v].phase = "exec" /\ vms'[v].result = "none")
             /\ \A c \in {1, 2, 7, 8} :
                   (Writes3(v, c) /\ vms[v].ins.pmodes[3] = immediate)
                   => /\ heap' = HeapWith(v, At(Mem(v), vms[v].pos + 2),
                                          Result3(c, mval(v, 0), mval(v, 1)))
                      /\ vms'[v].phase = "step" /\ vms'[v].result = "none"
             /\ ( /\ Acts(v) /\ vms[v].phase = "inhook" /\ ~vms[v].hookret.err
                  /\ vms[v].ins.pmodes[1] = immediate /\ setOk(v, 0) )
                => /\ heap' = HeapWith(v, At(Mem(v), vms[v].pos), vms[v].hookret.val)
                   /\ vms'[v].phase = "step" /\ vms'[v].result = "none"]_vars
    /\ [](RanOnce(<<11101, 2, 3, 0, 99>>)
          => (vms["src"].result = "nil" /\ SubSeq(Mem("src"), 1, 5) = <<5, 2, 3, 0, 99>>))
    /\ [](RanOnce(<<11107, 2, 3, 0, 99>>)
          => (vms["src"].result = "nil" /\ SubSeq(Mem("src"), 1, 5) = <<1, 2, 3, 0, 99>>))

C19_Witness ==
    /\ RanOnce(<<11101, 2, 3, 0, 99>>)
    /\ vms["src"].result = "nil"
    /\ At(Mem("src"), 0) = 5 /\ At(Mem("src"), 3) = 0

\* VM v is not running and holds an I/O instruction whose effect did not
\* complete: Run returned an error from it, or v was copied inside its hook.
Pending(v) ==
    /\ vms[v].live /\ vms[v].phase = "idle" /\ vms[v].result # "panic"
    /\ vms[v].decoded /\ vms[v].ins.op.code \in {3, 4}

\* The effect of the I/O instruction of VM v fails in this step.
EffectFails(v) ==
    /\ Acts(v)
    /\ \/ AtEffect(v, 3) /\ ~vms[v].Input
       \/ AtEffect(v, 4) /\ ~vms[v].Output
       \/ vms[v].phase \in {"inhook", "outhook"} /\ vms[v].hookret.err

\* C20: after Run has returned an error from the effect of the instruction
\* at p (missing hook or hook failure), or on a copy taken inside the hook
\* of that instruction, the next call of Run decodes at p + 1 + n and the
\* effect of the instruction at p is not executed: memory is as the failed
\* step found it.
C20_ResumeSkipsFailed ==
    /\ [][\A v \in VMIds :
             /\ EffectFails(v)
                => /\ Pending(v)' /\ heap' = heap
                   /\ vms'[v].at = vms[v].at /\ vms'[v].pos = vms[v].at + 1
                   /\ vms'[v].ins = vms[v].ins /\ ~vms'[v].jumped
             /\ (Acts(v) /\ Pending(v))
                => /\ vms'[v] = [vms[v] EXCEPT !.phase = "step", !.result = "none"]
                   /\ heap' = heap /\ calls' = calls
             /\ (Decodes(v) /\ vms[v].decoded /\ vms[v].ins.op.code \in {3, 4})
                => /\ vms'[v].at = vms[v].at + 2
                   /\ heap' = heap /\ calls' = calls]_vars
    /\ [][(~vms["cpy"].live /\ vms'["cpy"].live /\ vms["src"].phase \in {"inhook", "outhook"})
          => /\ Pending("cpy")'
             /\ vms'["cpy"].at = vms["src"].at
             /\ vms'["cpy"].pos = vms["src"].at + 1
             /\ ~vms'["cpy"].jumped]_vars
    /\ []( ( /\ heap["src.program"] = <<3, 0, 4, 0, 99>> /\ ~vms["src"].Input
             /\ vms["src"].n = 2 /\ vms["src"].phase = "exec" )
           => /\ vms["src"].at = 2 /\ vms["src"].ins.op.code = 4
              /\ At(Mem("src"), 0) = 3 )

C20_Witness ==
    /\ heap["src.program"] = <<3, 0, 4, 0, 99>> /\ vms["src"].Input
    /\ \E k \in 1..Len(CallsOf("src")) : CallsOf("src")[k].err
    /\ vms["src"].n = 2 /\ vms["src"].phase = "exec"
    /\ vms["src"].at = 2 /\ At(Mem("src"), 0) = 3
    /\ vms["cpy"].live /\ vms["cpy"].n = 1 /\ vms["cpy"].phase = "exec"
    /\ vms["cpy"].at = 2 /\ At(Mem("cpy"), 0) = 3

====
